---- MODULE Spec2Model ----
(***************************************************************************)
(* Authenticated-session coordination layer of oypunu-frontend-web:        *)
(* AuthService (token store + session operations), authInterceptor         *)
(* (request gateway) and the refresh coordinator it drives.                *)
(*                                                                         *)
(* One action is one run-to-completion handler of the single-threaded      *)
(* event loop: a call made by a component, or the callback of one settled  *)
(* network call, with every synchronous call it makes.                     *)
(***************************************************************************)
EXTENDS Naturals, Integers, Sequences, FiniteSets, TLC

\* ------------------------------------------------------------------ bounds
NumReq == 2       \* application requests in progress at once
MaxGen == 2       \* token pairs the server issues in one run
MaxCalls == 1     \* service calls (login, register, ...) outstanding at once
MaxDirect == 2    \* refresh calls a component starts on its own in one run
MaxSockets == 3   \* socket objects io() creates in one run
MaxFetch == 2     \* GET /favorite-words calls outstanding at once
MaxFavCalls == 2  \* other calls of DictionaryService outstanding at once

ReqIds == 1..NumReq

\* A request URL, as the pieces the interceptor's tests tell apart: the path up
\* to and including a route name, then what follows it.
ApiUrl == <<"/words">>
LoginUrl == <<"/auth/login">>
LogoutAllUrl == <<"/auth/logout", "-all">>
Urls == {ApiUrl, LoginUrl, LogoutAllUrl}
Users == {"u1", "u2"}
Forms == {"jwt", "opaque"}

\* UserRole, and the accounts of the role checks with the role their user
\* record carries (User.role)
UserRole == {"user", "contributor", "admin", "superadmin"}
Accounts == {"u1", "u2", "u3", "u4"}
RoleOf == [u1 |-> "user", u2 |-> "contributor", u3 |-> "admin",
           u4 |-> "superadmin"]
\* the strings a caller passes as a role: the four roles and one that is none
RoleNames == UserRole \cup {"moderator"}
NoUser == "none"

\* A stored token: the generation the server issued it in, whether it is a
\* decodable JWT, and whether its exp claim lies before Date.now().
Token(g, f, e) == [gen |-> g, form |-> f, expired |-> e]
NoToken == Token(0, "none", FALSE)

VARIABLES
  localStorage,   \* keys access_token, refresh_token, user, token
  currentUser,    \* _currentUserSubject.value
  refreshState,   \* the refresh coordinator: inFlight, waiters, attached call
  reqs,           \* each application request's position in the interceptor
  refreshCalls,   \* ids of the POST /auth/refresh calls not yet settled
  refreshStarted, \* how many POST /auth/refresh calls were issued so far
  issued,         \* how many token pairs the server issued so far
  calls,          \* the other service calls not yet settled
  webSocket,      \* WebSocketService: socket, connectionStatus, io()'s sockets
  dictionary,     \* DictionaryService: the favourites cache and its calls
  last            \* the handler that ran last and what it observed

vars == <<localStorage, currentUser, refreshState, reqs, refreshCalls,
          refreshStarted, issued, calls, webSocket, dictionary, last>>

EmptyStorage ==
  [access_token |-> NoToken, refresh_token |-> NoToken, user |-> NoUser,
   token |-> NoToken]

IdleState == [inFlight |-> FALSE, waiters |-> <<>>, call |-> 0]

NewReq ==
  [pc |-> "new", url |-> ApiUrl, hdr |-> 0, out |-> "none", replays |-> 0,
   via |-> 0, seen |-> 0]

\* The state the synchronous helpers read and write, with what the running
\* handler has observed so far: posts (the most POST /auth/logout requests one
\* logout() invocation sent), logouts (logout() ran), status (the status of
\* the error response the interceptor's catchError got), stale
\* (hasValidRefreshToken() found an expired JWT and cleared the store) and
\* emits (what _currentUserSubject.next() was called with, in order).
World ==
  [ls |-> localStorage, cur |-> currentUser, coord |-> refreshState,
   reqs |-> reqs, rcalls |-> refreshCalls, started |-> refreshStarted,
   posts |-> 0, logouts |-> 0, status |-> "none", stale |-> 0,
   emits |-> <<>>]

Max(a, b) == IF a >= b THEN a ELSE b
SeqToSet(s) == {s[i] : i \in 1..Len(s)}

\* ------------------------------------------------------ WebSocketService
\* A root service exists from its first injection on.  socket is the id of
\* the socket the field refers to (0 for null); sockets gives every socket
\* io() can create its state: unused, connecting (created or reconnecting,
\* connected false), connected, closed (disconnect() was called on it).

SocketIds == 1..MaxSockets

NoWebSocket ==
  [started |-> FALSE, socket |-> 0,
   sockets |-> [i \in SocketIds |-> "unused"], connectionStatus |-> FALSE]

Open(sk) == {i \in SocketIds : sk.sockets[i] \in {"connecting", "connected"}}
Unused(sk) == {i \in SocketIds : sk.sockets[i] = "unused"}

\* connect(): only a socket that is connected is kept; token is what
\* authService.getToken() returned.  io() gives the lowest unused socket (the
\* callers see to it that one is left).
connect(sk, token) ==
  IF sk.socket /= 0 /\ sk.sockets[sk.socket] = "connected" THEN sk
  ELSE IF token = NoToken \/ Unused(sk) = {} THEN sk
  ELSE LET i == CHOOSE j \in Unused(sk) : \A k \in Unused(sk) : j <= k
       IN [sk EXCEPT !.socket = i, !.sockets[i] = "connecting"]

disconnect(sk) ==
  IF sk.socket /= 0
  THEN [sk EXCEPT !.sockets[sk.socket] = "closed", !.socket = 0,
                  !.connectionStatus = FALSE]
  ELSE sk

\* the constructor's subscriber of currentUser$, for one emission
wsOnUser(sk, e) ==
  IF e.user /= NoUser THEN connect(sk, e.token) ELSE disconnect(sk)

RECURSIVE wsOnEmits(_, _)
wsOnEmits(sk, es) ==
  IF es = <<>> THEN sk ELSE wsOnEmits(wsOnUser(sk, Head(es)), Tail(es))

\* ------------------------------------------------------ DictionaryService
\* favoriteWordIds is _favoriteWordIds.value; favoriteWords is the set of the
\* ids of the words in _favoriteWords.value (the list is empty exactly when
\* the set is); calls are the POST, DELETE and GET /words/:id calls not yet
\* answered ([kind, word], one per kind and word at a time); fetches counts
\* the GET /favorite-words calls not yet answered.

WordIds == {"w1", "w2"}

NoDictionary ==
  [started |-> FALSE, favoriteWordIds |-> {}, favoriteWords |-> {},
   calls |-> {}, fetches |-> 0]

\* _addWordToFavoritesList(): getWordById(wordId) is subscribed
addWordToFavoritesList(d, wordId) ==
  [d EXCEPT !.calls = @ \cup {[kind |-> "word", word |-> wordId]}]

\* _setFavoriteStatus()
setFavoriteStatus(d, wordId, isFavorite) ==
  IF isFavorite
  THEN LET d1 == [d EXCEPT !.favoriteWordIds = @ \cup {wordId}]
       IN IF wordId \in d.favoriteWords THEN d1
          ELSE addWordToFavoritesList(d1, wordId)
  ELSE [d EXCEPT !.favoriteWordIds = @ \ {wordId},
                 !.favoriteWords = @ \ {wordId}]

\* getFavoriteWords() subscribed; auth is what isAuthenticated() returns
getFavoriteWords(d, auth) ==
  IF auth THEN [d EXCEPT !.fetches = @ + 1] ELSE d

\* _loadFavoriteWords(), the subscriber of currentUser$, for one emission
favOnUser(d, e) ==
  IF e.user /= NoUser THEN getFavoriteWords(d, e.auth)
  ELSE [d EXCEPT !.favoriteWordIds = {}, !.favoriteWords = {}]

RECURSIVE favOnEmits(_, _)
favOnEmits(d, es) ==
  IF es = <<>> THEN d ELSE favOnEmits(favOnUser(d, Head(es)), Tail(es))

\* What a handler leaves behind: the store, the subject and the coordinator
\* as the helpers left them ...
CommitAuth(w, op) ==
  /\ localStorage' = w.ls
  /\ currentUser' = w.cur
  /\ refreshState' = w.coord
  /\ reqs' = w.reqs
  /\ refreshCalls' = w.rcalls
  /\ refreshStarted' = w.started
  /\ last' = [op |-> op, posts |-> w.posts, logouts |-> w.logouts,
              status |-> w.status, stale |-> w.stale]

\* ... and the services subscribed to currentUser$, if they exist, having
\* handled what the handler emitted.
wsAfter(w) ==
  IF webSocket.started THEN wsOnEmits(webSocket, w.emits) ELSE webSocket

favAfter(d, w) == IF d.started THEN favOnEmits(d, w.emits) ELSE d

Commit(w, op) ==
  /\ CommitAuth(w, op)
  /\ webSocket' = wsAfter(w)
  /\ dictionary' = favAfter(dictionary, w)

\* the same for a handler of DictionaryService that leaves its state as d
CommitDict(w, op, d) ==
  /\ CommitAuth(w, op)
  /\ webSocket' = wsAfter(w)
  /\ dictionary' = favAfter(d, w)

\* ---------------------------------------------------------- AuthService

\* _currentUserSubject.next(null), as the subscribers see it
NullEmitted == [user |-> NoUser, token |-> NoToken, auth |-> FALSE]

\* AuthService.isAuthenticated()
isAuthenticated(w) ==
  /\ w.ls.access_token /= NoToken
  /\ w.ls.refresh_token /= NoToken
  /\ w.ls.user /= NoUser
  /\ w.cur /= NoUser

\* atob(token.split('.')[1]) and JSON.parse succeed
Decodable(t) == t.form = "jwt"

\* AuthService.logout(): one POST /auth/logout when a refresh token is stored,
\* then the three removeItem calls and next(null).  The answer to the POST is
\* only logged, whatever it is and whenever it comes, so it is no action
\* here.  The POST is subscribed
\* before the store is cleared and passes through the interceptor, whose
\* getToken() calls logout() again when the stored access token does not
\* decode: the calls nest until the stack is exhausted, then unwind, each frame
\* clearing the store and each interceptor frame sending its POST (2 stands
\* for "more than one").
logoutPosts(w) ==
  IF w.ls.refresh_token = NoToken THEN 0
  ELSE IF w.ls.access_token /= NoToken /\ ~Decodable(w.ls.access_token) THEN 2
  ELSE 1

logoutStorage(ls) ==
  [ls EXCEPT !.access_token = NoToken, !.refresh_token = NoToken,
             !.user = NoUser]

\* logout() as it would be with the cleanup placed inside the refresh-token test
logoutOnlyWhenRevoking(w) ==
  IF w.ls.refresh_token = NoToken THEN [w EXCEPT !.logouts = 1]
  ELSE [w EXCEPT !.ls = logoutStorage(w.ls), !.cur = NoUser,
                 !.posts = Max(w.posts, logoutPosts(w)), !.logouts = 1]

logout(w) ==
  [w EXCEPT !.ls = logoutStorage(w.ls),
            !.cur = NoUser,
            !.posts = Max(w.posts, logoutPosts(w)),
            !.logouts = 1,
            !.emits = Append(@, NullEmitted)]

\* AuthService.getToken(): the value returned ...
getToken(w) ==
  LET t == w.ls.access_token IN
  IF t = NoToken THEN NoToken
  ELSE IF ~Decodable(t) THEN NoToken
  ELSE IF t.expired THEN NoToken
  ELSE t

\* ... and its side effect: logout() in the catch block.
getTokenEffect(w) ==
  LET t == w.ls.access_token IN
  IF t /= NoToken /\ ~Decodable(t) THEN logout(w) ELSE w

\* _currentUserSubject.next(user) for a user: the subscribers run in the same
\* call.  WebSocketService.connect() and the interceptor in front of
\* DictionaryService.getFavoriteWords() both read getToken().
emitUser(w, u) ==
  LET w1 == [w EXCEPT !.cur = u] IN
  getTokenEffect([w1 EXCEPT !.emits =
                    Append(@, [user |-> u, token |-> getToken(w1),
                               auth |-> isAuthenticated(w1)])])

\* AuthService.hasValidRefreshToken(): the value returned ...
hasValidRefreshToken(w) ==
  LET t == w.ls.refresh_token IN
  IF t = NoToken THEN FALSE
  ELSE IF Decodable(t) /\ t.expired THEN FALSE
  ELSE TRUE

\* hasValidRefreshToken() as it would be if it only reported
hasValidRefreshTokenReportOnly(w) == w

\* ... and its side effect: the store is cleared when the refresh token is a
\* JWT whose exp has passed.
hasValidRefreshTokenEffect(w) ==
  LET t == w.ls.refresh_token IN
  IF t /= NoToken /\ Decodable(t) /\ t.expired
  THEN [w EXCEPT !.ls = logoutStorage(w.ls), !.cur = NoUser, !.stale = 1,
                 !.emits = Append(@, NullEmitted)]
  ELSE w

\* AuthService.refreshTokens(), the tap on a successful response: the two
\* setItem calls (the user record is not touched, nothing is emitted).
refreshTokensTap(w, a, rt) ==
  [w EXCEPT !.ls.access_token = a, !.ls.refresh_token = rt]

\* refreshTokens() as it would be with a catchError that only maps the error
refreshTokensErrorNoLogout(w) == w

\* AuthService.refreshTokens(), the catchError on a failed response
refreshTokensError(w) == logout(w)

\* AuthService.login(), the tap on a successful response
loginTap(w, a, rt, u) ==
  emitUser([w EXCEPT !.ls.access_token = a, !.ls.refresh_token = rt,
                     !.ls.user = u], u)

\* AuthService.login(), the catchError: the error is mapped, nothing is written
loginError(w) == w

\* AuthService.register(), the tap when the response carries tokens and a user
\* and needs no email verification: keys 'token' and 'user'.  Nothing reads
\* the key 'token', so the form of the token written there is left a JWT.
registerTap(w, a, u) ==
  emitUser([w EXCEPT !.ls.token = a, !.ls.user = u], u)

\* AuthService._handleSocialAuthWindow(), the tap on the callback's response
socialTap(w, a, u) ==
  emitUser([w EXCEPT !.ls.token = a, !.ls.user = u], u)

\* AuthService.updateCurrentUser()
updateCurrentUser(w, u) == emitUser([w EXCEPT !.ls.user = u], u)

\* AuthService.logoutAllDevices(), the tap on a successful response ...
logoutAllTap(w) == logout(w)

\* ... and its catchError: the error is mapped and rethrown
logoutAllError(w) == w

\* hasMinimumRole(): the rank table, a role missing from it counts 0
roleHierarchy == [user |-> 1, contributor |-> 2, admin |-> 3, superadmin |-> 4]
roleLevel(role) ==
  IF role \in DOMAIN roleHierarchy THEN roleHierarchy[role] ELSE 0

\* hasMinimumRole() as it would be with a strict comparison
hasMinimumRoleStrict(w, requiredRole) ==
  IF w.cur = NoUser THEN FALSE
  ELSE roleLevel(RoleOf[w.cur]) > roleLevel(requiredRole)

hasMinimumRole(w, requiredRole) ==
  IF w.cur = NoUser THEN FALSE
  ELSE roleLevel(RoleOf[w.cur]) >= roleLevel(requiredRole)

hasRole(w, role) ==
  IF w.cur = NoUser THEN FALSE ELSE RoleOf[w.cur] = role

\* ----------------------------------------------------- refresh coordinator

finish(q, out) == [q EXCEPT !.pc = "done", !.out = out]

\* forceReset() as it would be if it cleared the flag and kept the queue
forceResetFlagOnly(w) == [w EXCEPT !.coord.inFlight = FALSE]

\* TokenRefreshManagerService.forceReset(): inFlight cleared, every waiter
\* dropped with a cancellation outcome.  A dropped waiter's pipeline errors, so
\* its catchError (handleTokenRefresh) runs handleLogout in the same call: the
\* nested forceReset finds the coordinator Idle, the nested logout() runs.
forceReset(w) ==
  LET ws == SeqToSet(w.coord.waiters)
      w1 == [w EXCEPT !.coord = IdleState,
                      !.reqs = [r \in ReqIds |->
                                  IF r \in ws THEN finish(w.reqs[r], "eCancel")
                                  ELSE w.reqs[r]]]
  IN IF ws = {} THEN w1 ELSE logout(w1)

\* handleLogout(): forceReset(), authService.logout(), router.navigate()
handleLogout(w) == logout(forceReset(w))

\* handleTokenRefresh(), switchMap of either branch: the request is cloned with
\* the new token and handed to next(), past this interceptor.
replay(w, r, a) ==
  [w EXCEPT !.reqs[r].pc = "replay", !.reqs[r].hdr = a.gen,
            !.reqs[r].replays = @ + 1,
            !.reqs[r].seen = w.ls.access_token.gen]

\* The catchError as it would be if it rethrew the original request's 401
refreshCatchErrorOriginal(w, r, err) ==
  LET w1 == handleLogout(w) IN [w1 EXCEPT !.reqs[r] = finish(w.reqs[r], "e401")]

\* handleTokenRefresh(), catchError of either branch: any error of the refresh,
\* of the wait or of the replayed request ends in handleLogout and is rethrown.
refreshCatchError(w, r, err) ==
  LET w1 == handleLogout(w) IN [w1 EXCEPT !.reqs[r] = finish(w.reqs[r], err)]

\* The coordinator's flush when the attached call succeeded: every waiter is
\* resumed with the new access token, first come first served, and the
\* coordinator is Idle.
RECURSIVE resumeAll(_, _, _)
resumeAll(w, ws, a) ==
  IF ws = <<>> THEN w ELSE resumeAll(replay(w, Head(ws), a), Tail(ws), a)

flushSuccess(w, a) ==
  resumeAll([w EXCEPT !.coord = IdleState], w.coord.waiters, a)

\* The coordinator's flush when the attached call failed: every waiter gets
\* the same failure, the coordinator is Idle, and each catchError runs.
RECURSIVE failAll(_, _, _)
failAll(w, ws, err) ==
  IF ws = <<>> THEN w
  ELSE failAll(refreshCatchError(w, Head(ws), err), Tail(ws), err)

flushFailure(w, err) ==
  failAll([w EXCEPT !.coord = IdleState], w.coord.waiters, err)

\* The refresh as it would be if the waiters were resumed before the tap ran
refreshSucceededFlushFirst(w, c, a, rt) ==
  LET w1 == IF w.coord.inFlight /\ w.coord.call = c
            THEN flushSuccess(w, a) ELSE w
  IN refreshTokensTap(w1, a, rt)

\* POST /auth/refresh call c answers with a new pair: the tap of
\* AuthService.refreshTokens() writes it, then the response goes downstream,
\* where the coordinator passes it on while it is still attached to c.
refreshSucceeded(w, c, a, rt) ==
  LET w1 == refreshTokensTap(w, a, rt) IN
  IF w1.coord.inFlight /\ w1.coord.call = c THEN flushSuccess(w1, a) ELSE w1

\* refreshTokens() as it would be without the test of the refresh token
refreshTokensUnguarded(w, c) ==
  LET w1 == getTokenEffect(w) IN
  [w1 EXCEPT !.rcalls = @ \cup {c}, !.started = c]

\* AuthService.refreshTokens() up to the subscription of the POST: with no
\* refresh token in the store it returns throwError and posts nothing; else
\* the POST passes through the interceptor (a public route: getToken() is
\* still read).
refreshTokens(w, c) ==
  IF w.ls.refresh_token = NoToken
  THEN [w EXCEPT !.status = "eNoRefreshToken"]
  ELSE LET w1 == getTokenEffect(w) IN
       [w1 EXCEPT !.rcalls = @ \cup {c}, !.started = c]

\* handleTokenRefresh() as it would be without the isCurrentlyRefreshing() test
handleTokenRefreshAlways(w, r) ==
  LET c == w.started + 1 IN
  refreshTokens(
    [w EXCEPT !.coord = [inFlight |-> TRUE, waiters |-> Append(@.waiters, r),
                         call |-> c],
              !.reqs[r].pc = "waiting", !.reqs[r].via = c], c)

\* handleTokenRefresh() as it would be with the waiting branch alone
handleTokenRefreshWaitOnly(w, r) ==
  [w EXCEPT !.coord.waiters = Append(@, r),
            !.reqs[r].pc = "waiting", !.reqs[r].via = w.coord.call]

\* handleTokenRefresh(): start a refresh when none is running, else wait.
handleTokenRefresh(w, r) ==
  IF ~w.coord.inFlight
  THEN LET c == w.started + 1 IN
       refreshTokens(
         [w EXCEPT !.coord = [inFlight |-> TRUE, waiters |-> <<r>>, call |-> c],
                   !.reqs[r].pc = "waiting", !.reqs[r].via = c], c)
  ELSE [w EXCEPT !.coord.waiters = Append(@, r),
                 !.reqs[r].pc = "waiting", !.reqs[r].via = w.coord.call]

\* ------------------------------------------------------------ interceptor

\* publicRoutes.some((route) => req.url.includes(route))
publicRoutes == {"/auth/login", "/auth/register", "/auth/refresh", "/auth/logout"}

\* isPublicRoute as it would be with an empty publicRoutes list
isPublicRouteNever(url) == FALSE

isPublicRoute(url) == \E i \in DOMAIN url : url[i] \in publicRoutes

\* authInterceptor up to next(req): getToken() is read whatever the route, the
\* header is set when it returned a token and the route is not public.
interceptSend(w, r) ==
  LET w1 == getTokenEffect(w) IN
  [w1 EXCEPT !.reqs[r].pc = "sent",
             !.reqs[r].hdr = IF isPublicRoute(w.reqs[r].url) THEN 0
                             ELSE getToken(w).gen]

\* authInterceptor, catchError with status 401 on a non-public route
on401(w, r) ==
  IF hasValidRefreshToken(w)
  THEN handleTokenRefresh(w, r)
  ELSE LET w1 == handleLogout(hasValidRefreshTokenEffect(w)) IN
       [w1 EXCEPT !.reqs[r] = finish(w.reqs[r], "e401")]

\* The catchError as it would be without the test of error.status
onErrorAnyStatus(w, r, status) == on401([w EXCEPT !.status = status], r)

\* authInterceptor, catchError: only a 401 is handled, the rest is rethrown
onError(w, r, status) ==
  LET w1 == [w EXCEPT !.status = status] IN
  IF status = "e401" /\ ~isPublicRoute(w.reqs[r].url) THEN on401(w1, r)
  ELSE [w1 EXCEPT !.reqs[r] = finish(@, status)]

Init ==
  /\ localStorage = EmptyStorage
  /\ currentUser = NoUser
  /\ refreshState = IdleState
  /\ reqs = [r \in ReqIds |-> NewReq]
  /\ refreshCalls = {}
  /\ refreshStarted = 0
  /\ issued = 0
  /\ calls = {}
  /\ webSocket = NoWebSocket
  /\ dictionary = NoDictionary
  /\ last = [op |-> "init", posts |-> 0, logouts |-> 0, status |-> "none",
             stale |-> 0]


\* The replay as it would be if sent through the whole interceptor chain again
replayErrorRetry(w, r, status) ==
  IF status = "e401" THEN on401(w, r) ELSE refreshCatchError(w, r, status)

\* handleTokenRefresh(): an error of the replayed request.  next(authReq)
\* runs past this interceptor, so the error does not come back to the
\* interceptor's catchError; it reaches the catchError that follows switchMap.
replayError(w, r, status) == refreshCatchError(w, r, status)

\* ---------------------------------------------------------------- actions

Keep == UNCHANGED <<issued, calls>>

\* A component issues a request to url; it takes the first free slot.
SendTo(r, url) ==
  /\ reqs[r].pc = "new"
  /\ \A q \in 1..(r - 1) : reqs[q].pc /= "new"
  /\ Commit(interceptSend([World EXCEPT !.reqs[r].url = url], r), "Send")
  /\ Keep

\* A request to an endpoint of the application's API.
Send(r) == SendTo(r, ApiUrl)

\* The response to the original request r arrives.
RespondOk(r) ==
  /\ reqs[r].pc = "sent"
  /\ Commit([World EXCEPT !.reqs[r] = finish(@, "ok")], "RespondOk")
  /\ Keep

RespondError(r, status) ==
  /\ reqs[r].pc = "sent"
  /\ Commit(onError(World, r, status), "RespondError")
  /\ Keep

\* The response to the replayed request r arrives.
ReplayOk(r) ==
  /\ reqs[r].pc = "replay"
  /\ Commit([World EXCEPT !.reqs[r] = finish(@, "ok")], "ReplayOk")
  /\ Keep

ReplayError(r, status) ==
  /\ reqs[r].pc = "replay"
  /\ Commit(replayError(World, r, status), "ReplayError")
  /\ Keep

\* The bounded wait of a queued waiter elapses (getNewTokenWhenAvailable): the
\* coordinator resolves that waiter alone with "refresh did not complete in
\* time".  The first entry is the caller that started the refresh; it follows
\* the refresh call itself, bounded by the transport's timeout (RefreshFail).
WaitTimeout(r) ==
  /\ \E i \in 2..Len(refreshState.waiters) : refreshState.waiters[i] = r
  /\ LET w == [World EXCEPT !.coord.waiters = SelectSeq(@, LAMBDA x : x /= r)]
     IN Commit(refreshCatchError(w, r, "eTimeout"), "WaitTimeout")
  /\ Keep

\* POST /auth/refresh call c succeeds.  The tap belongs to the call; the
\* coordinator passes the result on only while it is still attached to c.
RefreshOk(c, fa, fr) ==
  /\ c \in refreshCalls
  /\ issued < MaxGen
  /\ LET a == Token(issued + 1, fa, FALSE)
         rt == Token(issued + 1, fr, FALSE)
     IN Commit(refreshSucceeded([World EXCEPT !.rcalls = @ \ {c}], c, a, rt),
               "RefreshOk")
  /\ issued' = issued + 1
  /\ UNCHANGED calls

\* POST /auth/refresh call c fails.
RefreshFail(c) ==
  /\ c \in refreshCalls
  /\ LET w1 == refreshTokensError([World EXCEPT !.rcalls = @ \ {c}])
         w2 == IF w1.coord.inFlight /\ w1.coord.call = c
               THEN flushFailure(w1, "eRefresh") ELSE w1
     IN Commit(w2, "RefreshFail")
  /\ Keep

\* A caller other than the interceptor subscribes authService.refreshTokens().
RefreshCall ==
  /\ refreshStarted < MaxDirect
  /\ Commit(refreshTokens(World, refreshStarted + 1), "refreshTokens")
  /\ Keep

\* A service call is subscribed: its POST or GET passes through the
\* interceptor, which reads getToken() whatever the route.
CallSend(k) ==
  /\ k \notin calls
  /\ Cardinality(calls) < MaxCalls
  /\ calls' = calls \cup {k}
  /\ Commit(getTokenEffect(World), k)
  /\ UNCHANGED issued

LoginOk(u, fa, fr) ==
  /\ "login" \in calls
  /\ issued < MaxGen
  /\ calls' = calls \ {"login"}
  /\ issued' = issued + 1
  /\ Commit(loginTap(World, Token(issued + 1, fa, FALSE),
                     Token(issued + 1, fr, FALSE), u), "LoginOk")

LoginFail ==
  /\ "login" \in calls
  /\ calls' = calls \ {"login"}
  /\ Commit(loginError(World), "LoginFail")
  /\ UNCHANGED issued

RegisterOk(u) ==
  /\ "register" \in calls
  /\ issued < MaxGen
  /\ calls' = calls \ {"register"}
  /\ issued' = issued + 1
  /\ Commit(registerTap(World, Token(issued + 1, "jwt", FALSE), u), "RegisterOk")

\* register answers needsEmailVerification, or fails
RegisterOther ==
  /\ "register" \in calls
  /\ calls' = calls \ {"register"}
  /\ Commit(World, "RegisterOther")
  /\ UNCHANGED issued

SocialOk(u) ==
  /\ "social" \in calls
  /\ issued < MaxGen
  /\ calls' = calls \ {"social"}
  /\ issued' = issued + 1
  /\ Commit(socialTap(World, Token(issued + 1, "jwt", FALSE), u), "SocialOk")

SocialFail ==
  /\ "social" \in calls
  /\ calls' = calls \ {"social"}
  /\ Commit(World, "SocialFail")
  /\ UNCHANGED issued

LogoutAllOk ==
  /\ "logoutAll" \in calls
  /\ calls' = calls \ {"logoutAll"}
  /\ Commit(logoutAllTap(World), "LogoutAllOk")
  /\ UNCHANGED issued

LogoutAllFail ==
  /\ "logoutAll" \in calls
  /\ calls' = calls \ {"logoutAll"}
  /\ Commit(logoutAllError(World), "LogoutAllFail")
  /\ UNCHANGED issued

\* ProfileComponent.logout(): authService.logout()
UserLogout ==
  /\ Commit(logout(World), "UserLogout")
  /\ Keep

\* The profile page of the signed-in user stores the edited record.
UpdateUser(u) ==
  /\ currentUser /= NoUser
  /\ Commit(updateCurrentUser(World, u), "UpdateUser")
  /\ Keep

\* Time passes the exp claim of the stored access token / refresh token.
ExpireAccess ==
  /\ Decodable(localStorage.access_token)
  /\ ~localStorage.access_token.expired
  /\ Commit([World EXCEPT !.ls.access_token.expired = TRUE], "ExpireAccess")
  /\ Keep

ExpireRefresh ==
  /\ Decodable(localStorage.refresh_token)
  /\ ~localStorage.refresh_token.expired
  /\ Commit([World EXCEPT !.ls.refresh_token.expired = TRUE], "ExpireRefresh")
  /\ Keep

\* The caller of a finished request has taken its outcome: the slot stands
\* for the next request of the application.
Forget(r) ==
  /\ reqs[r].pc = "done"
  /\ Commit([World EXCEPT !.reqs[r] = NewReq], "Forget")
  /\ Keep

Next ==
  \/ \E r \in ReqIds : Forget(r)
  \/ \E r \in ReqIds : Send(r)
  \/ \E r \in ReqIds : RespondOk(r)
  \/ \E r \in ReqIds, st \in {"e401", "eOther"} : RespondError(r, st)
  \/ \E r \in ReqIds : ReplayOk(r)
  \/ \E r \in ReqIds, st \in {"e401", "eOther"} : ReplayError(r, st)
  \/ \E r \in ReqIds : WaitTimeout(r)
  \/ \E c \in refreshCalls, fa \in Forms, fr \in Forms : RefreshOk(c, fa, fr)
  \/ \E c \in refreshCalls : RefreshFail(c)
  \/ \E k \in {"login", "register", "social", "logoutAll"} : CallSend(k)
  \/ \E u \in Users, fa \in Forms, fr \in Forms : LoginOk(u, fa, fr)
  \/ LoginFail
  \/ \E u \in Users : RegisterOk(u)
  \/ RegisterOther
  \/ \E u \in Users : SocialOk(u)
  \/ SocialFail
  \/ LogoutAllOk
  \/ LogoutAllFail
  \/ UserLogout
  \/ \E u \in Users : UpdateUser(u)
  \/ ExpireAccess
  \/ ExpireRefresh

Spec == Init /\ [][Next]_vars

\* The gateway alone, with requests to every kind of URL: a login creates the
\* session, time expires its access token, requests are answered, refreshed
\* and replayed.
NextRoutes ==
  \/ \E r \in ReqIds : Forget(r)
  \/ \E r \in ReqIds, url \in Urls : SendTo(r, url)
  \/ \E r \in ReqIds : RespondOk(r)
  \/ \E r \in ReqIds, st \in {"e401", "eOther"} : RespondError(r, st)
  \/ \E r \in ReqIds : ReplayOk(r)
  \/ \E r \in ReqIds, st \in {"e401", "eOther"} : ReplayError(r, st)
  \/ \E c \in refreshCalls, fa \in Forms, fr \in Forms : RefreshOk(c, fa, fr)
  \/ \E c \in refreshCalls : RefreshFail(c)
  \/ CallSend("login")
  \/ \E u \in Users, fa \in Forms, fr \in Forms : LoginOk(u, fa, fr)
  \/ ExpireAccess

SpecRoutes == Init /\ [][NextRoutes]_vars

\* A guard or a template asks for a role; the answer is kept in last.status.
HasMinimumRole(requiredRole) ==
  /\ Commit([World EXCEPT !.status =
               IF hasMinimumRole(World, requiredRole) THEN "true" ELSE "false"],
            "hasMinimumRole")
  /\ Keep

HasRole(role) ==
  /\ Commit([World EXCEPT !.status =
               IF hasRole(World, role) THEN "true" ELSE "false"],
            "hasRole")
  /\ Keep

\* WebSocketService is injected for the first time: its constructor subscribes
\* to currentUser$, which hands it the current value at once.
StartWebSocket ==
  /\ ~webSocket.started
  /\ LET w == IF currentUser /= NoUser THEN getTokenEffect(World) ELSE World
         sk == wsOnUser([webSocket EXCEPT !.started = TRUE],
                        [user |-> currentUser, token |-> getToken(World),
                         auth |-> isAuthenticated(World)])
     IN /\ CommitAuth(w, "WebSocketService")
        /\ webSocket' = wsOnEmits(sk, w.emits)
        /\ dictionary' = favAfter(dictionary, w)
  /\ Keep

\* socket i reports 'connect': its listener sets the connection status
SocketConnected(i) ==
  /\ webSocket.sockets[i] = "connecting"
  /\ CommitAuth(World, "on connect")
  /\ webSocket' = [webSocket EXCEPT !.sockets[i] = "connected",
                                    !.connectionStatus = TRUE]
  /\ UNCHANGED dictionary
  /\ Keep

\* socket i loses its transport and reports 'disconnect'; socket.io keeps
\* the socket and tries to reconnect it
SocketDropped(i) ==
  /\ webSocket.sockets[i] = "connected"
  /\ CommitAuth(World, "on disconnect")
  /\ webSocket' = [webSocket EXCEPT !.sockets[i] = "connecting",
                                    !.connectionStatus = FALSE]
  /\ UNCHANGED dictionary
  /\ Keep

\* DictionaryService is injected for the first time: _loadFavoriteWords()
\* fetches the favourites if a session is present, then subscribes to
\* currentUser$, which hands it the current value at once.
StartDictionary ==
  /\ ~dictionary.started
  /\ LET w == IF isAuthenticated(World) THEN getTokenEffect(World) ELSE World
         d1 == getFavoriteWords([dictionary EXCEPT !.started = TRUE],
                                isAuthenticated(World))
         d2 == favOnUser(d1, [user |-> w.cur, token |-> getToken(w),
                              auth |-> isAuthenticated(w)])
     IN /\ CommitAuth(w, "DictionaryService")
        /\ webSocket' = wsAfter(w)
        /\ dictionary' = d2
  /\ Keep

\* addToFavorites(wordId), subscribed by its caller: without a session it
\* answers success false at once; else the optimistic update, then the POST
\* (through the interceptor).
AddToFavorites(wordId) ==
  /\ dictionary.started
  /\ [kind |-> "add", word |-> wordId] \notin dictionary.calls
  /\ Cardinality(dictionary.calls) < MaxFavCalls
  /\ IF ~isAuthenticated(World)
     THEN CommitDict(World, "addToFavorites", dictionary)
     ELSE LET d1 == setFavoriteStatus(dictionary, wordId, TRUE)
              d2 == [d1 EXCEPT !.calls = @ \cup {[kind |-> "add",
                                                  word |-> wordId]}]
          IN CommitDict(getTokenEffect(World), "addToFavorites", d2)
  /\ Keep

RemoveFromFavorites(wordId) ==
  /\ dictionary.started
  /\ [kind |-> "remove", word |-> wordId] \notin dictionary.calls
  /\ Cardinality(dictionary.calls) < MaxFavCalls
  /\ IF ~isAuthenticated(World)
     THEN CommitDict(World, "removeFromFavorites", dictionary)
     ELSE LET d1 == setFavoriteStatus(dictionary, wordId, FALSE)
              d2 == [d1 EXCEPT !.calls = @ \cup {[kind |-> "remove",
                                                  word |-> wordId]}]
          IN CommitDict(getTokenEffect(World), "removeFromFavorites", d2)
  /\ Keep

\* The answer to a POST or DELETE /favorite-words/:id: success true, success
\* false (tap) or an error response (catchError); the last two roll back.
FavoriteAnswered(c, outcome) ==
  /\ c \in dictionary.calls /\ c.kind \in {"add", "remove"}
  /\ LET d1 == [dictionary EXCEPT !.calls = @ \ {c}]
         d2 == IF outcome = "ok" THEN d1
               ELSE setFavoriteStatus(d1, c.word, c.kind = "remove")
     IN CommitDict(World, "favoriteAnswered", d2)
  /\ Keep

\* The answer to getWordById() of _addWordToFavoritesList: the word, or null
WordAnswered(c, found) ==
  /\ c \in dictionary.calls /\ c.kind = "word"
  /\ LET d1 == [dictionary EXCEPT !.calls = @ \ {c}]
         d2 == IF found THEN [d1 EXCEPT !.favoriteWords = @ \cup {c.word}]
               ELSE d1
     IN CommitDict(World, "wordAnswered", d2)
  /\ Keep

\* The answer to GET /favorite-words: the tap replaces list and id set
FetchOk(words) ==
  /\ dictionary.fetches > 0
  /\ CommitDict(World, "fetchOk",
                [dictionary EXCEPT !.fetches = @ - 1,
                                   !.favoriteWords = words,
                                   !.favoriteWordIds = words])
  /\ Keep

\* ... or its catchError: an empty result for the caller, the cache is kept
FetchFail ==
  /\ dictionary.fetches > 0
  /\ CommitDict(World, "fetchFail", [dictionary EXCEPT !.fetches = @ - 1])
  /\ Keep

\* AuthService alone, called by the components: the session operations, the
\* passing of time, and refreshTokens() subscribed directly.
NextAuth ==
  \/ \E k \in {"login", "register", "social", "logoutAll"} : CallSend(k)
  \/ \E u \in Users, fa \in Forms, fr \in Forms : LoginOk(u, fa, fr)
  \/ LoginFail
  \/ \E u \in Users : RegisterOk(u)
  \/ RegisterOther
  \/ \E u \in Users : SocialOk(u)
  \/ SocialFail
  \/ LogoutAllOk
  \/ LogoutAllFail
  \/ UserLogout
  \/ \E u \in Users : UpdateUser(u)
  \/ ExpireAccess
  \/ ExpireRefresh
  \/ RefreshCall
  \/ \E c \in refreshCalls, fa \in Forms, fr \in Forms : RefreshOk(c, fa, fr)
  \/ \E c \in refreshCalls : RefreshFail(c)

SpecAuth == Init /\ [][NextAuth]_vars

\* WebSocketService beside AuthService: the emissions of the current user
\* (login, updateCurrentUser, logout) and the events of the sockets.
NextSocket ==
  \/ StartWebSocket
  \/ CallSend("login")
  \/ \E u \in Users, fa \in Forms, fr \in Forms :
       Unused(webSocket) /= {} /\ LoginOk(u, fa, fr)
  \/ LoginFail
  \/ UserLogout
  \/ \E u \in Users : Unused(webSocket) /= {} /\ UpdateUser(u)
  \/ ExpireAccess
  \/ \E i \in SocketIds : SocketConnected(i)
  \/ \E i \in SocketIds : SocketDropped(i)

SpecSocket == Init /\ [][NextSocket]_vars

\* DictionaryService beside AuthService: sessions with decodable tokens, the
\* favourites operations and the answers to their calls.
NextFav ==
  \/ StartDictionary
  \/ CallSend("login")
  \/ \E u \in Users :
       dictionary.fetches < MaxFetch /\ LoginOk(u, "jwt", "jwt")
  \/ LoginFail
  \/ UserLogout
  \/ \E u \in Users : dictionary.fetches < MaxFetch /\ UpdateUser(u)
  \/ \E wordId \in WordIds : AddToFavorites(wordId)
  \/ \E wordId \in WordIds : RemoveFromFavorites(wordId)
  \/ \E c \in dictionary.calls, outcome \in {"ok", "refused", "error"} :
       FavoriteAnswered(c, outcome)
  \/ \E c \in dictionary.calls, found \in BOOLEAN : WordAnswered(c, found)
  \/ \E words \in SUBSET WordIds : FetchOk(words)
  \/ FetchFail

SpecFav == Init /\ [][NextFav]_vars

\* The role checks over the sessions of the four accounts.
NextRoles ==
  \/ CallSend("login")
  \/ \E u \in Accounts, fa \in Forms, fr \in Forms : LoginOk(u, fa, fr)
  \/ LoginFail
  \/ UserLogout
  \/ \E u \in Accounts : UpdateUser(u)
  \/ \E requiredRole \in RoleNames : HasMinimumRole(requiredRole)
  \/ \E role \in RoleNames : HasRole(role)

SpecRoles == Init /\ [][NextRoles]_vars

\* Every network call eventually settles: no request stays unanswered for
\* ever, no replayed request does, and no refresh call stays outstanding for
\* ever.  This is weak fairness of the handlers of the answers: each is
\* enabled exactly while its call is outstanding and ends it.
Settles ==
  /\ \A r \in ReqIds :
       /\ []<>(reqs[r].pc /= "sent")
       /\ []<>(reqs[r].pc /= "replay")
  /\ []<>(refreshCalls = {})

SpecLive == Spec /\ Settles


\* ----------------------------------------------------------------- claims

Cleared ==
  /\ localStorage.access_token = NoToken
  /\ localStorage.refresh_token = NoToken
  /\ localStorage.user = NoUser
  /\ currentUser = NoUser

\* What request q got from the refresh it asked for: the new token it was
\* resumed with, or the failure it ended with.
RefreshOutcome(q) ==
  [kind |-> IF q.replays > 0 THEN "token"
            ELSE IF q.pc = "done" THEN q.out ELSE "pending",
   gen |-> IF q.replays > 0 THEN q.hdr ELSE 0]

Asked(r) == reqs[r].via /= 0

C1_Step ==
  refreshStarted' /= refreshStarted =>
    /\ refreshStarted' = refreshStarted + 1
    /\ ~refreshState.inFlight
    /\ refreshState'.inFlight
    /\ refreshState'.call = refreshStarted'
    /\ refreshCalls' = refreshCalls \cup {refreshStarted'}

C1_Joined ==
  /\ \A r \in SeqToSet(refreshState.waiters) :
       reqs[r].pc = "waiting" /\ reqs[r].via = refreshState.call
  /\ \A r \in ReqIds : reqs[r].via <= refreshStarted

C1_SameFromCall ==
  \A r1, r2 \in ReqIds :
    (/\ Asked(r1) /\ reqs[r1].via = reqs[r2].via
     /\ RefreshOutcome(reqs[r1]).kind \in {"token", "eRefresh"}
     /\ RefreshOutcome(reqs[r2]).kind \in {"token", "eRefresh"})
    => RefreshOutcome(reqs[r1]) = RefreshOutcome(reqs[r2])

\* C1 (amended): a refresh call is issued only by a request that finds the
\* coordinator Idle, one call per such request; every request that asks while
\* it runs joins that call, and all requests still waiting when the call
\* settles get the same outcome of it (the same new token, or the same
\* failure).
C1_SingleFlight == [](C1_Joined /\ C1_SameFromCall) /\ [][C1_Step]_vars

C1_Witness ==
  /\ refreshStarted = 1
  /\ \E r1, r2 \in ReqIds :
       /\ r1 /= r2
       /\ reqs[r1].via = 1 /\ reqs[r2].via = 1
       /\ reqs[r1].replays = 1 /\ reqs[r2].replays = 1
       /\ reqs[r1].hdr = reqs[r2].hdr

\* C1 (as stated): all requests that asked for the same refresh receive the
\* same outcome of that one call.
C1_AllSameOutcome ==
  \A r1, r2 \in ReqIds :
    (/\ Asked(r1) /\ reqs[r1].via = reqs[r2].via
     /\ RefreshOutcome(reqs[r1]).kind /= "pending"
     /\ RefreshOutcome(reqs[r2]).kind /= "pending")
    => RefreshOutcome(reqs[r1]) = RefreshOutcome(reqs[r2])

\* C2: at most one refresh network call is outstanding in every reachable state.
C2_AtMostOneRefresh == Cardinality(refreshCalls) <= 1

\* C3: the store holds all of access token, refresh token and user record, or
\* none of them.
C3_NoPartialSession ==
  \/ /\ localStorage.access_token /= NoToken
     /\ localStorage.refresh_token /= NoToken
     /\ localStorage.user /= NoUser
  \/ /\ localStorage.access_token = NoToken
     /\ localStorage.refresh_token = NoToken
     /\ localStorage.user = NoUser

C4_Step ==
  \A r \in ReqIds :
    /\ reqs'[r].replays > reqs[r].replays =>
         /\ reqs[r].pc = "waiting"
         /\ last'.op = "RefreshOk"
         /\ reqs'[r].hdr = localStorage'.access_token.gen
    /\ (reqs[r].pc = "replay" /\ reqs'[r] /= reqs[r]) =>
         /\ reqs'[r].pc = "done"
         /\ reqs'[r].replays = reqs[r].replays
         /\ refreshStarted' = refreshStarted
         /\ last'.op = "ReplayOk" => reqs'[r].out = "ok"
         /\ last'.op = "ReplayError" => reqs'[r].out \in {"e401", "eOther"}

\* C4: a request is replayed at most once, only in the handler of a successful
\* refresh and with the token that refresh stored; whatever the replay returns
\* ends the request (a 401 is surfaced as the 401) and starts no refresh.
C4_ReplayOnce == [](\A r \in ReqIds : reqs[r].replays <= 1) /\ [][C4_Step]_vars

C4_Witness ==
  \E r \in ReqIds :
    reqs[r].pc = "done" /\ reqs[r].replays = 1 /\ reqs[r].out = "e401"

\* C5: when the refresh call fails, the session is logged out (store cleared,
\* current user absent) and that response starts no refresh call.
C5_RefreshOfRefresh ==
  /\ [](last.op = "RefreshFail" => Cleared)
  /\ [][last'.op = "RefreshFail" =>
          /\ refreshStarted' = refreshStarted
          /\ refreshCalls' \subseteq refreshCalls
          /\ refreshCalls' /= refreshCalls]_vars

C5_Witness ==
  /\ last.op = "RefreshFail"
  /\ \E r \in ReqIds : reqs[r].pc = "done" /\ reqs[r].out = "eRefresh"

\* The refresh call that settles in this step is the one the coordinator
\* still waits for.
SettlesAttached ==
  /\ refreshState.inFlight
  /\ refreshState.call \in refreshCalls \ refreshCalls'

\* C6: the completion of a refresh call abandoned by a force-reset writes
\* nothing to the store and leaves the current user alone.
C6_LateCompletionDiscarded ==
  [][(last'.op \in {"RefreshOk", "RefreshFail"} /\ ~SettlesAttached)
       => UNCHANGED <<localStorage, currentUser>>]_vars

\* C7: logout() leaves no access token, no refresh token, no user record and
\* no current user, from every reachable state, whether or not it posts a
\* revocation; the answer to the revocation is not awaited.
C7_LogoutClears ==
  /\ LET w == logout(World) IN
       /\ w.ls.access_token = NoToken
       /\ w.ls.refresh_token = NoToken
       /\ w.ls.user = NoUser
       /\ w.cur = NoUser
  /\ last.op = "UserLogout" => Cleared

C7_Witness == last.op = "UserLogout" /\ last.posts = 1

\* C8: after a handler in which logout() ran, the coordinator is Idle with no
\* waiters.
C8_LogoutResetsCoordinator == last.logouts = 1 => refreshState = IdleState

\* C9: once the logout-all call has settled, with success or with an error,
\* the store is cleared and the current user is absent.
C9_LogoutAllAlwaysLocal ==
  last.op \in {"LogoutAllOk", "LogoutAllFail"} => Cleared

\* C10: a successful login leaves the full session in the store and the user
\* as current user; calling login and a failed login leave both as they were.
C10_LoginAllOrNothing ==
  [][/\ last'.op = "LoginOk" =>
          /\ localStorage'.access_token /= NoToken
          /\ localStorage'.refresh_token /= NoToken
          /\ localStorage'.user /= NoUser
          /\ currentUser' = localStorage'.user
     /\ last'.op \in {"login", "LoginFail"} =>
          UNCHANGED <<localStorage, currentUser>>]_vars

\* The store holds neither an access token nor a refresh token.
NoTokens ==
  /\ localStorage.access_token = NoToken
  /\ localStorage.refresh_token = NoToken

\* C11: once the session is torn down (no access token and no refresh token
\* in the store), every handler but a successful login leaves it so, a request
\* sent is sent without an Authorization header, and a 401 starts no refresh
\* call.
C11_TornDownFailsFast ==
  [][(NoTokens /\ last'.op /= "LoginOk") =>
       /\ localStorage'.access_token = NoToken
       /\ localStorage'.refresh_token = NoToken
       /\ refreshStarted' = refreshStarted
       /\ \A r \in ReqIds :
            (reqs[r].pc = "new" /\ reqs'[r].pc = "sent") => reqs'[r].hdr = 0]_vars

InProgress(r) == reqs[r].pc \in {"sent", "waiting", "replay"}

C12_Step ==
  \A r \in ReqIds :
    /\ reqs[r].pc = "done" => (reqs'[r] = reqs[r] \/ reqs'[r] = NewReq)
    /\ (reqs[r].pc = "replay" /\ last'.op = "ReplayOk" /\ reqs'[r] /= reqs[r])
         => (reqs'[r].pc = "done" /\ reqs'[r].out = "ok")

\* C12: when every network call eventually settles, every request sent
\* eventually ends with an outcome; the outcome it ended with is not replaced,
\* and a request whose replay succeeded ends with the replay's response.
C12_OneOutcome ==
  /\ \A r \in ReqIds : InProgress(r) ~> (reqs[r].pc = "done")
  /\ [][C12_Step]_vars

C12_Witness ==
  \E r \in ReqIds :
    reqs[r].pc = "done" /\ reqs[r].replays = 1 /\ reqs[r].out = "ok"

\* The URL's path ends in one of the four public routes.
IsPublicEndpoint(url) == url[Len(url)] \in publicRoutes

C13_Step ==
  \A r \in ReqIds :
    (/\ reqs[r].pc = "sent" /\ IsPublicEndpoint(reqs[r].url)
     /\ reqs'[r] /= reqs[r] /\ last'.op = "RespondError")
    => /\ reqs'[r].pc = "done"
       /\ reqs'[r].out = last'.status
       /\ refreshStarted' = refreshStarted
       /\ refreshState' = refreshState

\* C13: a request to a public endpoint is sent without an Authorization
\* header, is never queued for a refresh and never replayed; an error answer
\* to it, 401 included, is surfaced as it is and starts no refresh call.
C13_PublicBypass ==
  /\ [](\A r \in ReqIds :
          (reqs[r].pc /= "new" /\ IsPublicEndpoint(reqs[r].url))
          => (reqs[r].hdr = 0 /\ reqs[r].replays = 0 /\ reqs[r].via = 0))
  /\ [][C13_Step]_vars

C13_Witness ==
  /\ last.op = "RespondError" /\ last.status = "e401"
  /\ getToken(World) /= NoToken
  /\ hasValidRefreshToken(World)
  /\ \E r \in ReqIds :
       /\ reqs[r].url = LoginUrl /\ reqs[r].pc = "done"
       /\ reqs[r].out = "e401"

\* C14: a request whose path does not end in a public route, sent while the
\* store holds an access token, carries that token as its Authorization
\* header.
C14_BearerAttached ==
  [][\A r \in ReqIds :
       (/\ reqs[r].pc = "new" /\ reqs'[r].pc = "sent"
        /\ ~IsPublicEndpoint(reqs'[r].url)
        /\ localStorage.access_token /= NoToken)
       => reqs'[r].hdr = localStorage.access_token.gen]_vars

\* Request r, to a URL that does not end in a public route, is answered 401
\* in this step.
Answered401(r) ==
  /\ reqs[r].pc = "sent" /\ reqs'[r] /= reqs[r]
  /\ ~IsPublicEndpoint(reqs[r].url)
  /\ last'.op = "RespondError" /\ last'.status = "e401"

\* C15: a 401 to a non-public request while the store holds no usable
\* refresh token starts no refresh call, runs logout and ends the request
\* with that 401.
C15_NoRefreshToken ==
  [][\A r \in ReqIds :
       (Answered401(r) /\ ~hasValidRefreshToken(World))
       => /\ reqs'[r].pc = "done" /\ reqs'[r].out = "e401"
          /\ reqs'[r].replays = 0
          /\ refreshStarted' = refreshStarted
          /\ refreshCalls' = refreshCalls
          /\ last'.logouts = 1
          /\ Cleared']_vars

\* C16: when the refresh call the coordinator waits for fails, logout runs
\* and every request waiting on it, the one that started it included, ends
\* with the refresh error.
C16_RefreshErrorSurfaced ==
  [][(last'.op = "RefreshFail" /\ SettlesAttached) =>
       /\ last'.logouts = 1
       /\ Cleared'
       /\ \A r \in SeqToSet(refreshState.waiters) :
            reqs'[r].pc = "done" /\ reqs'[r].out = "eRefresh"]_vars

C16_Witness ==
  /\ last.op = "RefreshFail"
  /\ \E r1, r2 \in ReqIds :
       /\ r1 /= r2 /\ reqs[r1].via = reqs[r2].via
       /\ reqs[r1].pc = "done" /\ reqs[r1].out = "eRefresh"
       /\ reqs[r2].pc = "done" /\ reqs[r2].out = "eRefresh"

\* C17: an error other than 401 in answer to an original request ends that
\* request with that error and changes nothing else: no refresh call, no
\* replay, no logout, the store, the current user and the coordinator as they
\* were.
C17_OtherErrorsPassThrough ==
  [][\A r \in ReqIds :
       (/\ reqs[r].pc = "sent" /\ reqs'[r] /= reqs[r]
        /\ last'.op = "RespondError" /\ last'.status /= "e401")
       => /\ reqs'[r] = finish(reqs[r], last'.status)
          /\ \A q \in ReqIds \ {r} : reqs'[q] = reqs[q]
          /\ last'.logouts = 0
          /\ UNCHANGED <<localStorage, currentUser, refreshState,
                         refreshCalls, refreshStarted>>]_vars

C17_Witness ==
  /\ last.op = "RespondError" /\ last.status = "eOther"
  /\ refreshState.inFlight
  /\ hasValidRefreshToken(World)
  /\ \E r \in ReqIds :
       reqs[r].pc = "done" /\ reqs[r].out = "eOther" /\ reqs[r].hdr /= 0

\* C18: sending a request while the stored access token does not decode
\* neither logs the session out nor changes the store or the current user.
C18_MalformedNotFatal ==
  [][(/\ localStorage.access_token /= NoToken
      /\ ~Decodable(localStorage.access_token)
      /\ last'.op \in {"Send", "login", "register", "social", "logoutAll"})
     => (last'.logouts = 0 /\ UNCHANGED <<localStorage, currentUser>>)]_vars

\* C19: in every reachable state, when the stored refresh token is a JWT
\* whose exp has passed, hasValidRefreshToken() reports it not usable and
\* leaves the store without access token, refresh token and user record; a
\* handler in which the check found such a token ends with the store so.
C19_StaleRefreshCleared ==
  /\ LET t == localStorage.refresh_token
         w == hasValidRefreshTokenEffect(World)
     IN (t /= NoToken /\ Decodable(t) /\ t.expired)
        => /\ ~hasValidRefreshToken(World)
           /\ w.ls.access_token = NoToken
           /\ w.ls.refresh_token = NoToken
           /\ w.ls.user = NoUser
  /\ last.stale = 1 => (NoTokens /\ localStorage.user = NoUser)

C19_Witness ==
  /\ last.op = "RespondError" /\ last.stale = 1
  /\ \E r \in ReqIds : reqs[r].pc = "done" /\ reqs[r].out = "e401"

\* C20: every request resumed by a successful refresh is resumed when the
\* store already holds the renewed pair: the token it is replayed with is the
\* access token the store held at that moment, and the refresh token stored
\* with it is of the same issue.
C20_WriteBeforeResume ==
  /\ [](\A r \in ReqIds : reqs[r].replays > 0 => reqs[r].seen = reqs[r].hdr)
  /\ [][\A r \in ReqIds :
          reqs'[r].replays > reqs[r].replays =>
            /\ last'.op = "RefreshOk"
            /\ reqs'[r].hdr = issued'
            /\ localStorage'.access_token.gen = issued'
            /\ localStorage'.refresh_token.gen = issued']_vars

C20_Witness ==
  /\ last.op = "RefreshOk"
  /\ \E r1, r2 \in ReqIds :
       /\ r1 /= r2
       /\ reqs[r1].pc = "replay" /\ reqs[r2].pc = "replay"
       /\ reqs[r1].seen = 2 /\ reqs[r2].seen = 2
       /\ localStorage.access_token.gen = 2

\* C21: refreshTokens() subscribed while the store holds no refresh token
\* ends at once with its own error: no refresh call is started, and the
\* store, the current user and the coordinator are as they were.
C21_NoTokenNoCall ==
  [][(last'.op = "refreshTokens" /\ localStorage.refresh_token = NoToken) =>
       /\ last'.status = "eNoRefreshToken"
       /\ refreshStarted' = refreshStarted
       /\ refreshCalls' = refreshCalls
       /\ last'.logouts = 0
       /\ UNCHANGED <<localStorage, currentUser, refreshState>>]_vars

C21_Witness ==
  /\ last.op = "refreshTokens" /\ last.status = "eNoRefreshToken"
  /\ localStorage.refresh_token = NoToken
  /\ currentUser /= NoUser
  /\ refreshCalls = {}

\* C22: a waiter whose bounded wait elapses fails alone: it gets the timeout
\* failure, and the refresh call in flight, the other requests (waiters
\* included), the store, the current user and the rest of the coordinator are
\* as they were, so that a later success still resumes the remaining callers.
C22_TimeoutFailsAlone ==
  [][last'.op = "WaitTimeout" =>
       \E r \in ReqIds :
         /\ reqs[r].pc = "waiting" /\ reqs'[r] = finish(reqs[r], "eTimeout")
         /\ \A q \in ReqIds \ {r} : reqs'[q] = reqs[q]
         /\ refreshState' = [refreshState EXCEPT
                               !.waiters = SelectSeq(@, LAMBDA x : x /= r)]
         /\ UNCHANGED <<localStorage, currentUser, refreshCalls>>
         /\ last'.logouts = 0]_vars

\* C23: force-reset is idempotent.  On an Idle coordinator it changes nothing;
\* during Refreshing every current waiter is resolved with the cancellation
\* outcome, no other request is touched and the coordinator is Idle; a second
\* force-reset right after the first changes nothing more.
C23_ForceResetIdempotent ==
  LET ws == SeqToSet(refreshState.waiters)
      w1 == forceReset(World)
  IN /\ refreshState = IdleState => w1 = World
     /\ w1.coord = IdleState
     /\ \A r \in ws : w1.reqs[r] = finish(reqs[r], "eCancel")
     /\ \A r \in ReqIds \ ws : w1.reqs[r] = reqs[r]
     /\ forceReset(w1) = w1

\* a force-reset has cancelled a waiter of a refresh that is still outstanding
C23_Witness ==
  /\ \E r \in ReqIds : reqs[r].out = "eCancel"
  /\ refreshState = IdleState
  /\ refreshCalls /= {}

\* the rank table of the role checks, as the specification states it
RoleRank == [user |-> 1, contributor |-> 2, admin |-> 3, superadmin |-> 4]

RoleAnswers ==
  /\ \A required \in UserRole :
       hasMinimumRole(World, required) =
         (currentUser /= NoUser /\
          RoleRank[RoleOf[currentUser]] >= RoleRank[required])
  /\ \A exact \in RoleNames :
       hasRole(World, exact) =
         (currentUser /= NoUser /\ RoleOf[currentUser] = exact)

C24_Step ==
  last'.op \in {"hasMinimumRole", "hasRole"} =>
    /\ UNCHANGED <<localStorage, currentUser, refreshState, reqs,
                   refreshCalls, refreshStarted, issued, calls>>
    /\ last'.posts = 0 /\ last'.logouts = 0 /\ last'.stale = 0
    /\ last'.status \in {"true", "false"}

\* C24: with no user present hasMinimumRole is false for every required
\* role; with a user it is true exactly when the rank of the user's role is
\* at least the rank of the required role (user 1, contributor 2, admin 3,
\* superadmin 4).  hasRole is true exactly when a user is present and its
\* role is the one asked.  Neither changes any state.
C24_RoleChecks == []RoleAnswers /\ [][C24_Step]_vars

\* an admin has been refused the superadmin rank
C24_Witness ==
  /\ last.op = "hasMinimumRole" /\ last.status = "false"
  /\ currentUser /= NoUser /\ RoleOf[currentUser] = "admin"

\* C25: between operations the current user is present exactly when the
\* store holds an access token, a refresh token and a user record.
C25_MemoryAgreesWithStore ==
  (currentUser /= NoUser) <=>
    /\ localStorage.access_token /= NoToken
    /\ localStorage.refresh_token /= NoToken
    /\ localStorage.user /= NoUser

\* C26: an invocation of logout() sends at most one revocation POST, for
\* every store content: neither a handler that ran logout() has sent more
\* than one, nor would logout() invoked in the present state.
C26_OneRevocation == last.posts <= 1 /\ logoutPosts(World) <= 1

\* C27: when the request replayed after a successful refresh fails with an
\* error other than 401, the caller gets that error and the refreshed session
\* stays: the store, the current user and the coordinator are unchanged and
\* no logout runs.
C27_ReplayErrorKeepsSession ==
  [][\A r \in ReqIds :
       (/\ last'.op = "ReplayError"
        /\ reqs[r].pc = "replay" /\ reqs'[r].pc = "done"
        /\ reqs'[r].out /= "e401")
       => /\ UNCHANGED <<localStorage, currentUser, refreshState>>
          /\ last'.logouts = 0]_vars

\* C28: the client holds at most one WebSocket open: no two sockets that
\* io() created are undisconnected at once, and while no current user is
\* present no socket remains and the connection status is false.
C28_OneSocket ==
  webSocket.started =>
    /\ Cardinality(Open(webSocket)) <= 1
    /\ currentUser = NoUser =>
         /\ Open(webSocket) = {}
         /\ webSocket.socket = 0
         /\ ~webSocket.connectionStatus

\* C29: a failed addToFavorites(w) or removeFromFavorites(w) rolls back
\* exactly: with nothing in between, the cached id set after the failure is
\* the set before the call, whether or not w was a favourite.
C29_RollbackExact ==
  (dictionary.started /\ isAuthenticated(World)) =>
    \A wordId \in WordIds :
      /\ setFavoriteStatus(setFavoriteStatus(dictionary, wordId, TRUE),
                           wordId, FALSE).favoriteWordIds
           = dictionary.favoriteWordIds
      /\ setFavoriteStatus(setFavoriteStatus(dictionary, wordId, FALSE),
                           wordId, TRUE).favoriteWordIds
           = dictionary.favoriteWordIds

\* C30: the favourites cache does not outlive the session: while no current
\* user is present the cached id set and word list are empty, whatever call
\* started before the logout is answered after it.
C30_CacheEndsWithSession ==
  (dictionary.started /\ currentUser = NoUser) =>
    /\ dictionary.favoriteWordIds = {}
    /\ dictionary.favoriteWords = {}

====
